---- MODULE Spec2Model ----
(***************************************************************************)
(* hntldr: the dedup ledger (posted_items), the update-task queue          *)
(* (message_updates), the poll cycle (scheduler.poll_and_post) and the     *)
(* live-update worker (updater.update_worker).                             *)
(*                                                                         *)
(* Time.  A datetime is a natural number of ticks; Sub ticks make one      *)
(* minute, so t \div Sub is the date-time down to the minute and t % Sub    *)
(* the sub-minute (microsecond) field.  The tables hold timestamps as the  *)
(* text datetime.isoformat() produces, and every comparison the code makes *)
(* is the byte-wise comparison of that text, as SQLite and Python do it.   *)
(***************************************************************************)
EXTENDS Integers, Sequences, FiniteSets, TLC

\* ------------------------------------------------------------------ bounds
StoreHorizon == 19
EnqueueWindow == 2
MaxJump == 3
MaxAdvances == 4
Horizon == 1
MaxPolls == 2
MaxCrashes == 1
MaxFaults == 1
StoriesPerPoll == 1
MaxIdle == 2
LedgerDays == 3
LedgerOffset == 2
SweepHorizon == 1
NotifyOffset == 1
NotifyHours == 1
MaxStoryReports == 2

\* --------------------------------------------------------------- constants
Sub == 2
IsoWidth == 5
FastMinutes == 10
SlowMinutes == 30
LifetimeHours == 3
PhaseSwitchCount == 3
CleanupEvery == 40
PruneDays == 30
MinScoreDefault == 100
MinScoreShowHn == 50
MinScoreJobs == -1
DedupTtlMinutes == 60
MaxEntries == 1000

\* the stories of Hacker News the runs follow: two, so that one can
\* overtake the other in the queue
HnIds == {1, 2}

\* timedelta(minutes = m), timedelta(hours = h)
Minutes(m) == m * Sub
Hours(h) == Minutes(60 * h)

\* _DEDUP_TTL
DedupTtl == Minutes(DedupTtlMinutes)

\* ------------------------------------------------------- isoformat strings
\* character codes: '+' < '.' < '0' .. '9'
Plus == 43
Dot == 46
Zero == 48

RECURSIVE Pow10(_)
Pow10(k) == IF k = 0 THEN 1 ELSE 10 * Pow10(k - 1)

\* the zero-padded, fixed-width date-time field
DateTimeField(n) ==
    [i \in 1..IsoWidth |-> Zero + ((n \div Pow10(IsoWidth - i)) % 10)]

\* datetime.isoformat(): the fraction is printed only when it is not zero,
\* then the UTC offset
isoformat(t) ==
    DateTimeField(t \div Sub)
        \o (IF t % Sub = 0 THEN <<Plus>> ELSE <<Dot, Zero + (t % Sub), Plus>>)

\* a < b as text (memcmp, the shorter of two equal prefixes first)
StrLess(a, b) ==
    \E i \in 1..Len(b) :
        /\ \A j \in 1..(i - 1) : j <= Len(a) /\ a[j] = b[j]
        /\ (i <= Len(a) => a[i] < b[i])

StrLeq(a, b) == a = b \/ StrLess(a, b)

\* ------------------------------------------------------------------- state
VARIABLES
    now,              \* datetime.now(timezone.utc)
    posted_items,     \* table posted_items: its rows in rowid order
    message_updates,  \* table message_updates: rows in rowid order
    ret,              \* the result of the last get_next_update_task call
    call,             \* the last call of the Store or of notify_admin: its name and id
    advances,         \* per id: advance calls since its last enqueue, time of the last
    retired,          \* per id: advance deleted the row and no enqueue followed
    ppc,              \* poll_and_post, per invocation: where it awaits
    stories,          \* poll_and_post: the stories not yet gone through
    posted_count,     \* poll_and_post: posted_count
    wpc,              \* update_worker: where it awaits
    task,             \* update_worker: task
    item,             \* update_worker: item
    cycle,            \* update_worker: cycle
    edited,           \* update_worker: how the iteration's edit_message_text ended, what was reported
    polls,            \* poll cycles started
    crashes,          \* process restarts
    faults,           \* failures of a collaborator or of a store write
    published,        \* per id: send_message calls that succeeded
    mpc,              \* the /summarize or pasted-link handler: where it awaits, for which id
    replied,          \* per id: the last summary sent on request, and whether the id was posted then
    sent,             \* errors.py: _sent, its entries in insertion order
    sends,            \* per payload followed: rounds of admin messages, time and outcome of the last
    reported          \* per-story failures reported in the run

storeVars == <<posted_items, message_updates>>
ghostVars == <<ret, call, advances, retired>>
pollVars == <<ppc, stories, posted_count>>
workerVars == <<wpc, task, item, cycle, edited>>
envVars == <<polls, crashes, faults, published>>
manualVars == <<mpc, replied>>
notifyVars == <<sent, sends, reported>>
progVars == <<pollVars, workerVars, envVars, manualVars, notifyVars>>
vars == <<now, posted_items, message_updates, ret, call, advances, retired,
          ppc, stories, posted_count, wpc, task, item, cycle, edited,
          polls, crashes, faults, published, mpc, replied, sent, sends, reported>>

None == <<>>

\* ------------------------------------------------------------ Store (store.py)
RowIds(tbl) == {tbl[i].hn_id : i \in 1..Len(tbl)}
RowOf(tbl, hn_id) == tbl[CHOOSE i \in 1..Len(tbl) : tbl[i].hn_id = hn_id]
DeleteRow(tbl, hn_id) == SelectSeq(tbl, LAMBDA r : r.hn_id # hn_id)

\* SELECT 1 FROM posted_items WHERE hn_id = ?
has_been_posted(led, hn_id) == \E i \in 1..Len(led) : led[i].hn_id = hn_id

\* INSERT OR REPLACE INTO posted_items: the row of the same hn_id (the
\* primary key) is deleted and the new row gets the next rowid
mark_posted_plain_insert(led, t, hn_id, title, score) ==
    Append(led, [hn_id |-> hn_id, title |-> title, posted_at |-> isoformat(t),
                 score |-> score])

mark_posted(led, t, hn_id, title, score) ==
    Append(DeleteRow(led, hn_id),
           [hn_id |-> hn_id, title |-> title, posted_at |-> isoformat(t), score |-> score])

\* DELETE FROM posted_items WHERE posted_at < cutoff
prune_old_at_or_before(led, t, days) ==
    IF t < Hours(24 * days)
    THEN led
    ELSE LET cutoff == isoformat(t - Hours(24 * days))
         IN  SelectSeq(led, LAMBDA r : StrLess(cutoff, r.posted_at))

\* timedelta(minutes=days) for timedelta(days=days)
prune_old_in_minutes(led, t, days) ==
    IF t < Minutes(days)
    THEN led
    ELSE LET cutoff == isoformat(t - Minutes(days))
         IN  SelectSeq(led, LAMBDA r : ~StrLess(r.posted_at, cutoff))

prune_old(led, t, days) ==
    IF t < Hours(24 * days)
    THEN led
    ELSE LET cutoff == isoformat(t - Hours(24 * days))
         IN  SelectSeq(led, LAMBDA r : ~StrLess(r.posted_at, cutoff))

\* INSERT OR REPLACE INTO message_updates: the row of the same hn_id is
\* deleted and the new row gets the next rowid
add_update_task_keeps_count(tbl, t, hn_id, message_id, chat_id, title, hook, url, score, comments) ==
    Append(DeleteRow(tbl, hn_id),
        [hn_id |-> hn_id, message_id |-> message_id, chat_id |-> chat_id,
         title |-> title, hook |-> hook, url |-> url,
         score |-> score, comments |-> comments,
         posted_at |-> isoformat(t), last_updated_at |-> isoformat(t),
         update_count |-> IF hn_id \in RowIds(tbl) THEN RowOf(tbl, hn_id).update_count ELSE 0,
         phase |-> IF hn_id \in RowIds(tbl) THEN RowOf(tbl, hn_id).phase ELSE "10min",
         next_update_at |-> isoformat(t + Minutes(FastMinutes)),
         expires_at |-> isoformat(t + Hours(LifetimeHours))])

add_update_task_keeps_expiry(tbl, t, hn_id, message_id, chat_id, title, hook, url, score, comments) ==
    Append(DeleteRow(tbl, hn_id),
        [hn_id |-> hn_id, message_id |-> message_id, chat_id |-> chat_id,
         title |-> title, hook |-> hook, url |-> url,
         score |-> score, comments |-> comments,
         posted_at |-> isoformat(t), last_updated_at |-> isoformat(t),
         update_count |-> 0, phase |-> "10min",
         next_update_at |-> isoformat(t + Minutes(FastMinutes)),
         expires_at |-> IF hn_id \in RowIds(tbl) THEN RowOf(tbl, hn_id).expires_at
                        ELSE isoformat(t + Hours(LifetimeHours))])

add_update_task(tbl, t, hn_id, message_id, chat_id, title, hook, url, score, comments) ==
    Append(DeleteRow(tbl, hn_id),
        [hn_id |-> hn_id, message_id |-> message_id, chat_id |-> chat_id,
         title |-> title, hook |-> hook, url |-> url,
         score |-> score, comments |-> comments,
         posted_at |-> isoformat(t), last_updated_at |-> isoformat(t),
         update_count |-> 0, phase |-> "10min",
         next_update_at |-> isoformat(t + Minutes(FastMinutes)),
         expires_at |-> isoformat(t + Hours(LifetimeHours))])

\* SELECT * ... WHERE next_update_at <= now AND expires_at > now
\* ORDER BY next_update_at LIMIT 1: the index on next_update_at is walked in
\* (next_update_at, rowid) order
DueRows_ignores_schedule(tbl, t) ==
    {i \in 1..Len(tbl) : StrLess(isoformat(t), tbl[i].expires_at)}

DueRows_ignores_expiry(tbl, t) ==
    {i \in 1..Len(tbl) : StrLeq(tbl[i].next_update_at, isoformat(t))}

DueRows(tbl, t) ==
    {i \in 1..Len(tbl) :
        /\ StrLeq(tbl[i].next_update_at, isoformat(t))
        /\ StrLess(isoformat(t), tbl[i].expires_at)}

get_next_update_task_latest_first(tbl, t) ==
    LET due == DueRows(tbl, t)
    IN  IF due = {}
        THEN None
        ELSE LET first == CHOOSE i \in due : \A j \in due :
                     \/ StrLess(tbl[j].next_update_at, tbl[i].next_update_at)
                     \/ (tbl[i].next_update_at = tbl[j].next_update_at /\ i <= j)
             IN  <<tbl[first]>>

get_next_update_task(tbl, t) ==
    LET due == DueRows(tbl, t)
    IN  IF due = {}
        THEN None
        ELSE LET first == CHOOSE i \in due : \A j \in due :
                     \/ StrLess(tbl[i].next_update_at, tbl[j].next_update_at)
                     \/ (tbl[i].next_update_at = tbl[j].next_update_at /\ i <= j)
             IN  <<tbl[first]>>

\* the phase after one more update, and the interval of that phase
NextPhase_late_switch(phase, update_count) ==
    IF phase = "10min" /\ update_count > PhaseSwitchCount THEN "30min" ELSE phase

NextPhase(phase, update_count) ==
    IF phase = "10min" /\ update_count >= PhaseSwitchCount THEN "30min" ELSE phase

Interval(phase) ==
    IF phase = "10min" THEN Minutes(FastMinutes) ELSE Minutes(SlowMinutes)

\* "if next_update >= expires_at": the row is deleted, not stored
Retires_only_past_expiry(next_update, expires_at) == StrLess(expires_at, next_update)

Retires(next_update, expires_at) == StrLeq(expires_at, next_update)

\* the UPDATE without its WHERE clause
advance_update_task_updates_all(tbl, t, hn_id, new_score, new_comments) ==
    IF hn_id \notin RowIds(tbl)
    THEN tbl
    ELSE LET row == RowOf(tbl, hn_id)
             update_count == row.update_count + 1
             phase == NextPhase(row.phase, update_count)
             next_update == isoformat(t + Interval(phase))
         IN  IF Retires(next_update, row.expires_at)
             THEN DeleteRow(tbl, hn_id)
             ELSE [i \in 1..Len(tbl) |->
                     [tbl[i] EXCEPT !.score = new_score, !.comments = new_comments,
                                    !.update_count = update_count, !.phase = phase,
                                    !.next_update_at = next_update,
                                    !.last_updated_at = isoformat(t)]]

advance_update_task(tbl, t, hn_id, new_score, new_comments) ==
    IF hn_id \notin RowIds(tbl)
    THEN tbl
    ELSE LET row == RowOf(tbl, hn_id)
             update_count == row.update_count + 1
             phase == NextPhase(row.phase, update_count)
             next_update == isoformat(t + Interval(phase))
         IN  IF Retires(next_update, row.expires_at)
             THEN DeleteRow(tbl, hn_id)
             ELSE [i \in 1..Len(tbl) |->
                     IF tbl[i].hn_id = hn_id
                     THEN [tbl[i] EXCEPT !.score = new_score, !.comments = new_comments,
                                         !.update_count = update_count, !.phase = phase,
                                         !.next_update_at = next_update,
                                         !.last_updated_at = isoformat(t)]
                     ELSE tbl[i]]

\* DELETE FROM message_updates WHERE expires_at <= now
remove_expired_updates_keeps_expired(tbl, t) ==
    SelectSeq(tbl, LAMBDA r : StrLeq(r.expires_at, isoformat(t)))

remove_expired_updates(tbl, t) ==
    SelectSeq(tbl, LAMBDA r : ~StrLeq(r.expires_at, isoformat(t)))

\* ------------------------------------------------------------ the clock
\* Time moves to a later instant: within the minute, or to a later point of
\* a grid of FastMinutes, with any sub-minute field.
GridPoint(t) == (t \div Sub) \div FastMinutes

ClockSteps(t) ==
    (IF (t % Sub) < Sub - 1 THEN {t + 1} ELSE {})
        \cup {Minutes((GridPoint(t) + k) * FastMinutes) + f : k \in 1..MaxJump, f \in 0..(Sub - 1)}

\* --------------------------------------------- the queue's calls in any order
TitleOf(hn_id) == <<"title", hn_id>>
HookOf(hn_id) == <<"hook", hn_id>>
UrlOf(hn_id) == <<"url", hn_id>>
ChannelId == "channel"

\* the queue on its own is followed for one id, enqueued (and enqueued
\* again) in the first EnqueueWindow grid points
StoreIds == {1}
StoreMetrics == {<<10, 0>>, <<20, 2>>}

PollSlots == {1, 2}

NoCall == [name |-> "none", hn_id |-> 0]
NoAdvance == [n |-> 0, at |-> 0]
NoRequest == [pc |-> "idle", hn_id |-> 0]
NoEdit == [outcome |-> "none", report |-> "none"]

\* ------------------------------------------------- notify_admin (errors.py)
\* dedup_payload = f"{context}\n{error_msg}"; the key is the first 16 hex
\* digits of its SHA-256, taken here to differ wherever the payloads differ
DedupKey(context, error_msg) == context \o <<"\n">> \o error_msg

\* the reports followed: an error of the worker loop, a cycle-level error
\* of the poll, and the same error for one story after another
WorkerReport == DedupKey(<<"update_worker">>, <<"database is locked">>)
PollReport == DedupKey(<<"poll_and_post">>, <<"database is locked">>)
StoryReport(n) == DedupKey(<<"poll_and_post story ", n>>, <<"Timed out">>)
ReportKeys == {WorkerReport, PollReport}

Keys(m) == {m[i].key : i \in 1..Len(m)}

\* min(_sent, key=_sent.get): the first entry, in insertion order, with the
\* least timestamp
Oldest(m) ==
    LET least == CHOOSE t \in {m[i].ts : i \in 1..Len(m)} :
                     \A i \in 1..Len(m) : t <= m[i].ts
    IN  CHOOSE i \in 1..Len(m) : m[i].ts = least /\ \A j \in 1..(i - 1) : m[j].ts # least

Without(m, i) == SubSeq(m, 1, i - 1) \o SubSeq(m, i + 1, Len(m))

\* the stale entries go, a key still held ends the call, else the key is
\* recorded and, past MaxEntries entries, the oldest entry dropped; send
\* tells whether the admins are written to
notify_admin(m, t, key) ==
    LET kept == SelectSeq(m, LAMBDA e : ~(t - e.ts > DedupTtl))
        added == Append(kept, [key |-> key, ts |-> t])
    IN  IF key \in Keys(kept)
        THEN [sent |-> kept, send |-> FALSE]
        ELSE [sent |-> IF Len(added) > MaxEntries THEN Without(added, Oldest(added))
                       ELSE added,
              send |-> TRUE]

NoSends == [k \in ReportKeys |-> [n |-> 0, at |-> 0, failed |-> FALSE]]

\* the state at process start, on an empty database
InitBase ==
    /\ now = 0
    /\ posted_items = <<>>
    /\ message_updates = <<>>
    /\ ret = None
    /\ call = NoCall
    /\ advances = [i \in HnIds |-> NoAdvance]
    /\ retired = [i \in HnIds |-> FALSE]
    /\ ppc = [p \in PollSlots |-> "idle"]
    /\ stories = [p \in PollSlots |-> <<>>]
    /\ posted_count = [p \in PollSlots |-> 0]
    /\ wpc = "start"
    /\ task = None
    /\ item = None
    /\ cycle = 0
    /\ edited = NoEdit
    /\ polls = 0
    /\ crashes = 0
    /\ faults = 0
    /\ published = [i \in HnIds |-> 0]
    /\ mpc = NoRequest
    /\ replied = [i \in HnIds |-> "no"]

Init ==
    /\ InitBase
    /\ sent = <<>>
    /\ sends = NoSends
    /\ reported = 0

InitStore == Init

SEnqueue(hn_id, m) ==
    /\ GridPoint(now) <= EnqueueWindow
    /\ message_updates' = add_update_task(message_updates, now, hn_id, hn_id, ChannelId,
                               TitleOf(hn_id), HookOf(hn_id), UrlOf(hn_id), m[1], m[2])
    /\ call' = [name |-> "enqueue", hn_id |-> hn_id]
    /\ advances' = [advances EXCEPT ![hn_id] = [n |-> 0, at |-> now]]
    /\ retired' = [retired EXCEPT ![hn_id] = FALSE]
    /\ ret' = None
    /\ UNCHANGED <<now, posted_items, progVars>>

SAdvance(hn_id, m) ==
    /\ advances[hn_id].n < MaxAdvances
    /\ message_updates' = advance_update_task(message_updates, now, hn_id, m[1], m[2])
    /\ call' = [name |-> "advance", hn_id |-> hn_id]
    /\ advances' = [advances EXCEPT ![hn_id] =
                        IF hn_id \in RowIds(message_updates')
                        THEN [n |-> @.n + 1, at |-> now] ELSE NoAdvance]
    /\ retired' = [retired EXCEPT ![hn_id] =
                        @ \/ (hn_id \in RowIds(message_updates)
                                /\ hn_id \notin RowIds(message_updates'))]
    /\ ret' = None
    /\ UNCHANGED <<now, posted_items, progVars>>

SDequeue ==
    /\ ret' = get_next_update_task(message_updates, now)
    /\ call' = [name |-> "dequeue", hn_id |-> 0]
    /\ UNCHANGED <<now, storeVars, advances, retired, progVars>>

SRemoveExpired ==
    /\ message_updates' = remove_expired_updates(message_updates, now)
    /\ call' = [name |-> "remove_expired", hn_id |-> 0]
    /\ advances' = [i \in HnIds |->
                        IF i \in RowIds(message_updates') THEN advances[i] ELSE NoAdvance]
    /\ ret' = None
    /\ UNCHANGED <<now, posted_items, retired, progVars>>

STick ==
    /\ \E t \in ClockSteps(now) : GridPoint(t) <= StoreHorizon /\ now' = t
    /\ call' = NoCall
    /\ ret' = None
    /\ UNCHANGED <<storeVars, advances, retired, progVars>>

NextStore ==
    \/ \E i \in StoreIds, m \in StoreMetrics : SEnqueue(i, m)
    \/ \E i \in StoreIds, m \in StoreMetrics : SAdvance(i, m)
    \/ SDequeue
    \/ SRemoveExpired
    \/ STick

SpecStore == InitStore /\ [][NextStore]_vars

\* ------------------------------------------ the ledger's calls in any order
\* the clock of the ledger runs over days: a tick, or a whole day
PruneWindows == {1, 2}
LedgerScores == {50, 100}

LMarkPosted(hn_id, score) ==
    /\ posted_items' = mark_posted(posted_items, now, hn_id, TitleOf(hn_id), score)
    /\ call' = [name |-> "mark_posted", hn_id |-> hn_id]
    /\ ret' = None
    /\ UNCHANGED <<now, message_updates, advances, retired, progVars>>

LHasBeenPosted(hn_id) ==
    /\ ret' = <<has_been_posted(posted_items, hn_id)>>
    /\ call' = [name |-> "has_been_posted", hn_id |-> hn_id]
    /\ UNCHANGED <<now, storeVars, advances, retired, progVars>>

\* DELETE FROM posted_items with the queue rows of the pruned ids going too
LPruneOld_cascades(days) ==
    /\ posted_items' = prune_old(posted_items, now, days)
    /\ message_updates' = SelectSeq(message_updates,
                              LAMBDA r : has_been_posted(posted_items', r.hn_id))
    /\ call' = [name |-> "prune_old", hn_id |-> days]
    /\ ret' = None
    /\ UNCHANGED <<now, advances, retired, progVars>>

LPruneOld(days) ==
    /\ posted_items' = prune_old(posted_items, now, days)
    /\ call' = [name |-> "prune_old", hn_id |-> days]
    /\ ret' = None
    /\ UNCHANGED <<now, message_updates, advances, retired, progVars>>

LTick ==
    /\ \/ (now % Hours(24)) < LedgerOffset /\ now' = now + 1
       \/ now \div Hours(24) < LedgerDays /\ now' = now + Hours(24)
    /\ call' = NoCall
    /\ ret' = None
    /\ UNCHANGED <<storeVars, advances, retired, progVars>>

NextLedger ==
    \/ \E i \in HnIds, sc \in LedgerScores : LMarkPosted(i, sc)
    \/ \E i \in HnIds : LHasBeenPosted(i)
    \/ \E d \in PruneWindows : LPruneOld(d)
    \/ LTick

SpecLedger == Init /\ [][NextLedger]_vars

\* --------------------------------- both tables' calls in any order, over days
NextTables ==
    \/ \E i \in StoreIds, m \in StoreMetrics : SEnqueue(i, m)
    \/ \E i \in StoreIds, m \in StoreMetrics : SAdvance(i, m)
    \/ SDequeue
    \/ SRemoveExpired
    \/ \E i \in StoreIds, sc \in LedgerScores : LMarkPosted(i, sc)
    \/ \E d \in PruneWindows : LPruneOld(d)
    \/ LTick

SpecTables == Init /\ [][NextTables]_vars

\* ------------------------------------------------- config (config.py)
\* detect_topic (fetcher.py): the type first, then the title's prefix
detect_topic(title_prefix, item_type) ==
    IF item_type = "job" THEN "jobs"
    ELSE IF title_prefix = "show hn:" THEN "show_hn"
    ELSE "default"

score_threshold_for(topic) ==
    IF topic = "show_hn" THEN MinScoreShowHn
    ELSE IF topic = "jobs" THEN MinScoreJobs
    ELSE MinScoreDefault

\* ------------------------------------------ what the collaborators return
\* fetch_top_stories_with_details: the ranked stories, no id twice
StoryOf(hn_id, points, item_type) ==
    [id |-> hn_id, points |-> points, num_comments |-> 0,
     title_prefix |-> "", type |-> item_type]

StoryChoices(hn_id) ==
    {StoryOf(hn_id, pts, ty) :
        pts \in {MinScoreDefault - 1, MinScoreDefault}, ty \in {"story", "job"}}

AllStories == UNION {StoryChoices(i) : i \in HnIds}

CandidateLists ==
    {<<>>}
        \cup {<<a>> : a \in AllStories}
        \cup {l \in {<<a, b>> : a \in AllStories, b \in AllStories} : l[1].id # l[2].id}

\* fetch_hn_item: the fresh points and comment count of a posted story
FetchResults ==
    {[points |-> MinScoreDefault, num_comments |-> 0],
     [points |-> MinScoreDefault + 1, num_comments |-> 0],
     [points |-> MinScoreDefault, num_comments |-> 1]}

\* bot.edit_message_text: done, RetryAfter, BadRequest "message is not
\* modified", another BadRequest, any other TelegramError
EditOutcomes == {"ok", "retry_after", "not_modified", "bad_request", "error"}

\* ------------------------------------------- poll_and_post (scheduler.py)
\* the message id Telegram gives the next message of the channel
NextMessageId ==
    LET RECURSIVE Sum(_)
        Sum(S) == IF S = {} THEN 0
                  ELSE LET k == CHOOSE j \in S : TRUE IN published[k] + Sum(S \ {k})
    IN  Sum(HnIds) + 1

Skipped_excludes_equal(story, led) ==
    LET threshold == score_threshold_for(detect_topic(story.title_prefix, story.type))
    IN  \/ has_been_posted(led, story.id)
        \/ threshold = -1
        \/ story.points <= threshold

Skipped(story, led) ==
    LET threshold == score_threshold_for(detect_topic(story.title_prefix, story.type))
    IN  \/ has_been_posted(led, story.id)
        \/ threshold = -1
        \/ story.points < threshold

\* the loop runs without awaiting over the stories it skips
\* the loop run over the list back to front
SkipStories_reversed(list, led) ==
    LET rev == [k \in 1..Len(list) |-> list[Len(list) + 1 - k]]
        first == CHOOSE k \in 1..(Len(rev) + 1) :
                    /\ \A j \in 1..(k - 1) : Skipped(rev[j], led)
                    /\ k <= Len(rev) => ~Skipped(rev[k], led)
    IN  SubSeq(rev, first, Len(rev))

RECURSIVE SkipStories(_, _)
SkipStories(list, led) ==
    IF list # <<>> /\ Skipped(Head(list), led) THEN SkipStories(Tail(list), led) ELSE list

\* the process state poll and worker start from
Restarted ==
    /\ ppc' = [p \in PollSlots |-> "idle"]
    /\ stories' = [p \in PollSlots |-> <<>>]
    /\ posted_count' = [p \in PollSlots |-> 0]
    /\ wpc' = "start"
    /\ task' = None
    /\ item' = None
    /\ cycle' = 0
    /\ edited' = NoEdit
    /\ mpc' = NoRequest
    /\ sent' = <<>>
    /\ UNCHANGED <<replied, sends, reported>>

\* the timer (or the start-up call) fires; fetch_top_stories_with_details returns
PollStart(p) ==
    /\ ppc[p] = "idle"
    /\ polls < MaxPolls
    /\ polls' = polls + 1
    /\ \E list \in CandidateLists : stories' = [stories EXCEPT ![p] = list]
    /\ posted_count' = [posted_count EXCEPT ![p] = 0]
    /\ ppc' = [ppc EXCEPT ![p] = "loop"]
    /\ call' = NoCall
    /\ UNCHANGED <<manualVars, notifyVars, now, storeVars, ret, advances, retired, workerVars, crashes, faults,
                   published>>

\* the timer fires: poll_and_post opens the store and awaits
\* fetch_top_stories_with_details
PollTrigger(p) ==
    /\ ppc[p] = "idle"
    /\ polls < MaxPolls
    /\ polls' = polls + 1
    /\ ppc' = [ppc EXCEPT ![p] = "fetching"]
    /\ stories' = [stories EXCEPT ![p] = <<>>]
    /\ posted_count' = [posted_count EXCEPT ![p] = 0]
    /\ call' = NoCall
    /\ UNCHANGED <<manualVars, notifyVars, now, storeVars, ret, advances, retired, workerVars, crashes, faults,
                   published>>

\* fetch_top_stories_with_details returns the ranked stories
PollFetched(p) ==
    /\ ppc[p] = "fetching"
    /\ \E list \in CandidateLists : stories' = [stories EXCEPT ![p] = list]
    /\ ppc' = [ppc EXCEPT ![p] = "loop"]
    /\ UNCHANGED <<manualVars, notifyVars, now, storeVars, ghostVars, posted_count, workerVars, envVars>>

\* the request for topstories.json raises or answers with another status
\* than 200: fetch_top_story_ids logs it and returns [], and
\* fetch_top_stories_with_details returns [] in turn
PollFetchFails(p) ==
    /\ ppc[p] = "fetching"
    /\ faults < MaxFaults
    /\ faults' = faults + 1
    /\ stories' = [stories EXCEPT ![p] = <<>>]
    /\ ppc' = [ppc EXCEPT ![p] = "loop"]
    /\ UNCHANGED <<manualVars, notifyVars, now, storeVars, ghostVars, posted_count, workerVars, polls, crashes,
                   published>>

\* the head of the for loop, up to the next await: the break at the cap,
\* the stories skipped, and after the loop prune_old(days=30)
PollLoop(p) ==
    /\ ppc[p] = "loop"
    /\ LET rest == IF posted_count[p] >= StoriesPerPoll THEN <<>>
                   ELSE SkipStories(stories[p], posted_items)
       IN  IF rest = <<>>
           THEN /\ posted_items' = prune_old(posted_items, now, PruneDays)
                /\ call' = [name |-> "prune_old", hn_id |-> PruneDays]
                /\ ppc' = [ppc EXCEPT ![p] = "idle"]
                /\ stories' = [stories EXCEPT ![p] = <<>>]
           ELSE /\ ppc' = [ppc EXCEPT ![p] = "summarize"]
                /\ stories' = [stories EXCEPT ![p] = rest]
                /\ UNCHANGED <<posted_items, call>>
    /\ UNCHANGED <<manualVars, notifyVars, now, message_updates, ret, advances, retired, posted_count, workerVars,
                   envVars>>

\* a statement of the loop outside the per-story try raises (has_been_posted,
\* the threshold test): the outer except clause, notify_admin
PollCycleFails(p) ==
    /\ ppc[p] = "loop"
    /\ stories[p] # <<>>
    /\ posted_count[p] < StoriesPerPoll
    /\ faults < MaxFaults
    /\ faults' = faults + 1
    /\ ppc' = [ppc EXCEPT ![p] = "cycle_failed"]
    /\ stories' = [stories EXCEPT ![p] = <<>>]
    /\ UNCHANGED <<manualVars, notifyVars, now, storeVars, ghostVars, posted_count, workerVars, polls, crashes,
                   published>>

\* notify_admin of the outer except clause returns: poll_and_post returns
PollCycleFailed(p) ==
    /\ ppc[p] = "cycle_failed"
    /\ ppc' = [ppc EXCEPT ![p] = "idle"]
    /\ UNCHANGED <<manualVars, notifyVars, now, storeVars, ghostVars, stories, posted_count, workerVars, envVars>>

\* the except clause of the per-story try: notify_admin, then continue
OnStoryError_ends_cycle == "idle"

OnStoryError == "notify"

\* fetch_article_content and summarize_article return, or one of them raises
PollSummarize(p) ==
    /\ ppc[p] = "summarize"
    /\ \/ /\ ppc' = [ppc EXCEPT ![p] = "publish"]
          /\ UNCHANGED faults
       \/ /\ faults < MaxFaults
          /\ faults' = faults + 1
          /\ ppc' = [ppc EXCEPT ![p] = OnStoryError]
    /\ UNCHANGED <<manualVars, notifyVars, now, storeVars, ghostVars, stories, posted_count, workerVars,
                   polls, crashes, published>>

\* the ledger written before the message is sent
PollPublish_marks_before_send(p) ==
    /\ ppc[p] = "publish"
    /\ LET story == Head(stories[p])
           enqueued == add_update_task(message_updates, now, story.id, NextMessageId,
                           ChannelId, TitleOf(story.id), HookOf(story.id), UrlOf(story.id),
                           story.points, story.num_comments)
           marked == mark_posted(posted_items, now, story.id, TitleOf(story.id), story.points)
           delivered == [published EXCEPT ![story.id] = @ + 1]
       IN  \/ \* send_message raises
              /\ faults < MaxFaults
              /\ faults' = faults + 1
              /\ ppc' = [ppc EXCEPT ![p] = OnStoryError]
              /\ posted_items' = marked
              /\ UNCHANGED <<message_updates, posted_count, published>>
           \/ \* add_update_task raises
              /\ faults < MaxFaults
              /\ faults' = faults + 1
              /\ published' = delivered
              /\ ppc' = [ppc EXCEPT ![p] = OnStoryError]
              /\ UNCHANGED <<storeVars, posted_count>>
           \/ \* mark_posted raises
              /\ faults < MaxFaults
              /\ faults' = faults + 1
              /\ published' = delivered
              /\ message_updates' = enqueued
              /\ ppc' = [ppc EXCEPT ![p] = OnStoryError]
              /\ UNCHANGED <<posted_items, posted_count>>
           \/ \* all three succeed
              /\ published' = delivered
              /\ message_updates' = enqueued
              /\ posted_items' = marked
              /\ posted_count' = [posted_count EXCEPT ![p] = @ + 1]
              /\ ppc' = [ppc EXCEPT ![p] = "delay"]
              /\ UNCHANGED faults
    /\ UNCHANGED <<manualVars, notifyVars, now, ghostVars, stories, workerVars, polls, crashes>>

\* send_message returns; add_update_task, mark_posted and posted_count += 1
\* follow without an await, up to asyncio.sleep(3)
PollPublish(p) ==
    /\ ppc[p] = "publish"
    /\ LET story == Head(stories[p])
           enqueued == add_update_task(message_updates, now, story.id, NextMessageId,
                           ChannelId, TitleOf(story.id), HookOf(story.id), UrlOf(story.id),
                           story.points, story.num_comments)
           marked == mark_posted(posted_items, now, story.id, TitleOf(story.id), story.points)
           delivered == [published EXCEPT ![story.id] = @ + 1]
       IN  \/ \* send_message raises
              /\ faults < MaxFaults
              /\ faults' = faults + 1
              /\ ppc' = [ppc EXCEPT ![p] = OnStoryError]
              /\ UNCHANGED <<storeVars, posted_count, published>>
           \/ \* add_update_task raises
              /\ faults < MaxFaults
              /\ faults' = faults + 1
              /\ published' = delivered
              /\ ppc' = [ppc EXCEPT ![p] = OnStoryError]
              /\ UNCHANGED <<storeVars, posted_count>>
           \/ \* mark_posted raises
              /\ faults < MaxFaults
              /\ faults' = faults + 1
              /\ published' = delivered
              /\ message_updates' = enqueued
              /\ ppc' = [ppc EXCEPT ![p] = OnStoryError]
              /\ UNCHANGED <<posted_items, posted_count>>
           \/ \* all three succeed
              /\ published' = delivered
              /\ message_updates' = enqueued
              /\ posted_items' = marked
              /\ posted_count' = [posted_count EXCEPT ![p] = @ + 1]
              /\ ppc' = [ppc EXCEPT ![p] = "delay"]
              /\ UNCHANGED faults
    /\ UNCHANGED <<manualVars, notifyVars, now, ghostVars, stories, workerVars, polls, crashes>>

\* the process dies after send_message returned: before add_update_task,
\* or between add_update_task and mark_posted
PollPublishCrash(p) ==
    /\ ppc[p] = "publish"
    /\ crashes < MaxCrashes
    /\ crashes' = crashes + 1
    /\ LET story == Head(stories[p])
       IN  /\ published' = [published EXCEPT ![story.id] = @ + 1]
           /\ \/ UNCHANGED message_updates
              \/ message_updates' = add_update_task(message_updates, now, story.id,
                     NextMessageId, ChannelId, TitleOf(story.id), HookOf(story.id),
                     UrlOf(story.id), story.points, story.num_comments)
    /\ Restarted
    /\ UNCHANGED <<now, posted_items, ghostVars, polls, faults>>

\* asyncio.sleep(3), or notify_admin in the except clause, returns: the
\* next story
PollContinue(p) ==
    /\ ppc[p] \in {"delay", "notify"}
    /\ ppc' = [ppc EXCEPT ![p] = "loop"]
    /\ stories' = [stories EXCEPT ![p] = Tail(@)]
    /\ UNCHANGED <<manualVars, notifyVars, now, storeVars, ghostVars, posted_count, workerVars, envVars>>

\* ------------------------------------------- update_worker (updater.py)
\* the head of the while loop: get_next_update_task, then the await of
\* asyncio.sleep(15) or of fetch_hn_item
LoopHead(tbl) ==
    /\ task' = get_next_update_task(tbl, now)
    /\ wpc' = IF task' = None THEN "idle_sleep" ELSE "fetch"
    /\ item' = None
    /\ edited' = NoEdit

\* the worker task starts, or a sleep (pacing, RetryAfter, back-off) returns
WorkerResume ==
    /\ wpc \in {"start", "pace", "rate_sleep", "backoff"}
    /\ LoopHead(message_updates)
    /\ UNCHANGED <<manualVars, notifyVars, now, storeVars, ghostVars, pollVars, cycle, envVars>>

\* the clean-up run on every idle turn
WorkerIdle_sweeps_every_turn ==
    /\ wpc = "idle_sleep"
    /\ cycle' = (cycle + 1) % CleanupEvery
    /\ message_updates' = remove_expired_updates(message_updates, now)
    /\ LoopHead(message_updates')
    /\ UNCHANGED <<manualVars, notifyVars, now, posted_items, ghostVars, pollVars, envVars>>

\* asyncio.sleep(15) returns: cycle += 1, the clean-up every CleanupEvery;
\* cycle is only ever read modulo CleanupEvery and is kept modulo CleanupEvery
WorkerIdle ==
    /\ wpc = "idle_sleep"
    /\ cycle' = (cycle + 1) % CleanupEvery
    /\ message_updates' = IF cycle' % CleanupEvery = 0
                          THEN remove_expired_updates(message_updates, now)
                          ELSE message_updates
    /\ LoopHead(message_updates')
    /\ UNCHANGED <<manualVars, notifyVars, now, posted_items, ghostVars, pollVars, envVars>>

\* "if not item": advance with the task's own score and comments
OnFetchFailed_skips_advance(tbl, t, tk) == tbl

OnFetchFailed(tbl, t, tk) ==
    advance_update_task(tbl, t, tk.hn_id, tk.score, tk.comments)

\* fetch_hn_item returns
WorkerFetch ==
    /\ wpc = "fetch"
    /\ \/ /\ item' = None
          /\ message_updates' = OnFetchFailed(message_updates, now, task[1])
          /\ wpc' = "pace"
       \/ \E fresh \in FetchResults :
             /\ item' = <<fresh>>
             /\ IF fresh.points # task[1].score \/ fresh.num_comments # task[1].comments
                THEN /\ wpc' = "edit"
                     /\ UNCHANGED message_updates
                ELSE /\ message_updates' = advance_update_task(message_updates, now,
                            task[1].hn_id, fresh.points, fresh.num_comments)
                     /\ wpc' = "pace"
    /\ UNCHANGED <<manualVars, notifyVars, edited, now, posted_items, ghostVars, pollVars, task, cycle, envVars>>

\* the except clauses of the while loop's try: CancelledError breaks out of
\* the loop, any other exception goes to notify_admin and the back-off
OnException_ends_loop(kind) ==
    IF kind = "CancelledError" THEN "cancelled" ELSE "dead"

OnException(kind) ==
    IF kind = "CancelledError" THEN "cancelled" ELSE "notify"

\* what the except clauses around edit_message_text do with the outcome:
\* where the worker awaits next, and whether advance is called
\* (report: nothing, a logger.warning, or the outer except's notify_admin)
AfterEdit_warns_not_modified(outcome) ==
    IF outcome = "retry_after"
    THEN [wpc |-> "rate_sleep", advance |-> FALSE, report |-> "warning"]
    ELSE IF outcome = "error"
    THEN [wpc |-> OnException("Exception"), advance |-> FALSE, report |-> "admin"]
    ELSE IF outcome \in {"bad_request", "not_modified"}
    THEN [wpc |-> "pace", advance |-> TRUE, report |-> "warning"]
    ELSE [wpc |-> "pace", advance |-> TRUE, report |-> "none"]

AfterEdit(outcome) ==
    IF outcome = "retry_after"
    THEN [wpc |-> "rate_sleep", advance |-> FALSE, report |-> "warning"]
    ELSE IF outcome = "error"
    THEN [wpc |-> OnException("Exception"), advance |-> FALSE, report |-> "admin"]
    ELSE IF outcome = "bad_request"
    THEN [wpc |-> "pace", advance |-> TRUE, report |-> "warning"]
    ELSE [wpc |-> "pace", advance |-> TRUE, report |-> "none"]

\* edit_message_text returns or raises
WorkerEdit ==
    /\ wpc = "edit"
    /\ \E outcome \in EditOutcomes :
          /\ wpc' = AfterEdit(outcome).wpc
          /\ edited' = [outcome |-> outcome, report |-> AfterEdit(outcome).report]
          /\ message_updates' =
                IF AfterEdit(outcome).advance
                THEN advance_update_task(message_updates, now, task[1].hn_id,
                         item[1].points, item[1].num_comments)
                ELSE message_updates
    /\ UNCHANGED <<manualVars, notifyVars, now, posted_items, ghostVars, pollVars, task, item, cycle, envVars>>

\* a call of the loop body raises: get_next_update_task at the loop head,
\* fetch_hn_item, the formatting, or advance_update_task; the call that
\* raised wrote nothing
WorkerRaise ==
    /\ wpc \in {"start", "pace", "rate_sleep", "backoff", "idle_sleep", "fetch", "edit"}
    /\ faults < MaxFaults
    /\ faults' = faults + 1
    /\ wpc = "idle_sleep" => cycle < MaxIdle
    /\ cycle' = IF wpc = "idle_sleep" THEN cycle + 1 ELSE cycle
    /\ wpc' = OnException("Exception")
    /\ UNCHANGED <<manualVars, notifyVars, edited, now, storeVars, ghostVars, pollVars, task, item, polls, crashes, published>>

\* notify_admin returns: asyncio.sleep(15)
WorkerNotified ==
    /\ wpc = "notify"
    /\ wpc' = "backoff"
    /\ UNCHANGED <<manualVars, notifyVars, edited, now, storeVars, ghostVars, pollVars, task, item, cycle, envVars>>

\* the worker task is cancelled: CancelledError is raised at the await the
\* coroutine is suspended in; inside the try it is caught and breaks out of
\* the loop, inside the except clause it leaves the coroutine
WorkerCancel ==
    /\ wpc \notin {"cancelled", "dead"}
    /\ wpc' = IF wpc \in {"start", "notify", "backoff"}
              THEN "cancelled" ELSE OnException("CancelledError")
    /\ UNCHANGED <<manualVars, notifyVars, edited, now, storeVars, ghostVars, pollVars, task, item, cycle, envVars>>

\* ------------------------------------------------------- the environment
\* the process dies while it awaits, and is started again
Crash ==
    /\ crashes < MaxCrashes
    /\ crashes' = crashes + 1
    /\ Restarted
    /\ UNCHANGED <<now, storeVars, ghostVars, polls, faults, published>>

Tick ==
    /\ \E t \in ClockSteps(now) : GridPoint(t) <= Horizon /\ now' = t
    /\ UNCHANGED <<storeVars, ghostVars, progVars>>

\* poll_and_post as the worker sees it: a story not in the ledger is
\* published and add_update_task, mark_posted run; mark_posted may raise
PublishStory(hn_id) ==
    /\ ~has_been_posted(posted_items, hn_id)
    /\ published[hn_id] < MaxPolls
    /\ published' = [published EXCEPT ![hn_id] = @ + 1]
    /\ message_updates' = add_update_task(message_updates, now, hn_id, NextMessageId,
                              ChannelId, TitleOf(hn_id), HookOf(hn_id), UrlOf(hn_id),
                              MinScoreDefault, 0)
    /\ \/ /\ posted_items' = mark_posted(posted_items, now, hn_id, TitleOf(hn_id),
                                 MinScoreDefault)
          /\ UNCHANGED faults
       \/ /\ faults < MaxFaults
          /\ faults' = faults + 1
          /\ UNCHANGED posted_items
    /\ UNCHANGED <<manualVars, notifyVars, now, ghostVars, pollVars, workerVars, polls, crashes>>

\* ------------------------------------------------ manual requests (bot.py)
\* cmd_summarize / handle_hn_url: extract_hn_id found an id, "Reading..." is
\* sent, and process_hn_item awaits fetch_hn_item
ManualRequest(hn_id) ==
    /\ mpc = NoRequest
    /\ mpc' = [pc |-> "fetch", hn_id |-> hn_id]
    /\ UNCHANGED <<now, storeVars, ghostVars, pollVars, workerVars, envVars, replied, notifyVars>>

\* fetch_hn_item returns: no item (the handler says so and returns), or the
\* item, and process_hn_item awaits the article and summarize_article
ManualFetched ==
    /\ mpc.pc = "fetch"
    /\ \/ mpc' = NoRequest
       \/ mpc' = [mpc EXCEPT !.pc = "summarize"]
    /\ UNCHANGED <<now, storeVars, ghostVars, pollVars, workerVars, envVars, replied, notifyVars>>

\* the summary is written into the "Reading..." message and the ledger gets
\* the id, as poll_and_post does after its send
ManualSummarized_marks_posted ==
    /\ mpc.pc = "summarize"
    /\ mpc' = NoRequest
    /\ replied' = [replied EXCEPT ![mpc.hn_id] =
                      IF has_been_posted(posted_items, mpc.hn_id)
                      THEN "after_post" ELSE "before_post"]
    /\ posted_items' = mark_posted(posted_items, now, mpc.hn_id,
                            TitleOf(mpc.hn_id), MinScoreDefault)
    /\ UNCHANGED <<now, message_updates, ghostVars, pollVars, workerVars, envVars, notifyVars>>

\* process_hn_item returns and the summary is written into the "Reading..."
\* message, or a call raises and the error text is written there; replied
\* notes for the claims whether the id was in the ledger at that moment
ManualSummarized ==
    /\ mpc.pc = "summarize"
    /\ mpc' = NoRequest
    /\ \/ replied' = [replied EXCEPT ![mpc.hn_id] =
                         IF has_been_posted(posted_items, mpc.hn_id)
                         THEN "after_post" ELSE "before_post"]
       \/ UNCHANGED replied
    /\ UNCHANGED <<now, storeVars, ghostVars, pollVars, workerVars, envVars, notifyVars>>

\* the poll cycle, with the process dying at any await
NextPoll ==
    \/ PollStart(1)
    \/ PollLoop(1)
    \/ PollCycleFails(1)
    \/ PollCycleFailed(1)
    \/ PollSummarize(1)
    \/ PollPublish(1)
    \/ PollPublishCrash(1)
    \/ PollContinue(1)
    \/ Crash
    \/ Tick

SpecPoll == Init /\ [][NextPoll]_vars

\* the update worker, with stories being published beside it
NextWorker ==
    \/ \E i \in HnIds : PublishStory(i)
    \/ WorkerResume
    \/ cycle < MaxIdle /\ WorkerIdle
    \/ WorkerFetch
    \/ WorkerEdit
    \/ WorkerRaise
    \/ WorkerNotified
    \/ WorkerCancel
    \/ Tick

SpecWorker == Init /\ [][NextWorker]_vars

\* the clock read a whole task lifetime later: an await of the worker lasts,
\* or the process is suspended, until the tasks of the queue have expired
LifetimeTick ==
    /\ now < Hours(LifetimeHours)
    /\ now' = now + Hours(LifetimeHours)
    /\ UNCHANGED <<storeVars, ghostVars, progVars>>

\* the update worker over the expiry of the tasks it holds or retries
NextExpiry ==
    \/ \E i \in HnIds : PublishStory(i)
    \/ WorkerResume
    \/ cycle < MaxIdle /\ WorkerIdle
    \/ WorkerFetch
    \/ WorkerEdit
    \/ WorkerNotified
    \/ Tick
    \/ LifetimeTick

SpecExpiry == Init /\ [][NextExpiry]_vars

\* two invocations of poll_and_post in one process: the start-up call
\* (call_later, ensure_future) in slot 1, which the scheduler knows nothing
\* of, and the timer's job in slot 2, one instance at a time
NextOverlap ==
    \/ polls = 0 /\ PollStart(1)
    \/ polls > 0 /\ PollStart(2)
    \/ \E p \in PollSlots : PollLoop(p)
    \/ \E p \in PollSlots : PollSummarize(p)
    \/ \E p \in PollSlots : PollPublish(p)
    \/ \E p \in PollSlots : PollContinue(p)
    \/ Tick

SpecOverlap == Init /\ [][NextOverlap]_vars

\* the poll cycle with requests for summaries coming in beside it, at one
\* reading of the clock (no step of a request reads it)
NextManual ==
    \/ PollStart(1)
    \/ PollLoop(1)
    \/ PollSummarize(1)
    \/ PollPublish(1)
    \/ PollContinue(1)
    \/ \E i \in HnIds : ManualRequest(i)
    \/ ManualFetched
    \/ ManualSummarized

SpecManual == Init /\ [][NextManual]_vars

\* the poll cycle from the timer's trigger on, with the fetch of the
\* candidates as a step of its own that may fail
NextCycle ==
    \/ PollTrigger(1)
    \/ PollFetched(1)
    \/ PollFetchFails(1)
    \/ PollLoop(1)
    \/ PollCycleFails(1)
    \/ PollCycleFailed(1)
    \/ PollSummarize(1)
    \/ PollPublish(1)
    \/ PollContinue(1)
    \/ Tick

SpecCycle == Init /\ [][NextCycle]_vars

\* add_update_task for a story that was never enqueued before
SEnqueueOnce(hn_id, m) ==
    /\ hn_id \notin RowIds(message_updates)
    /\ ~retired[hn_id]
    /\ SEnqueue(hn_id, m)

\* the advance of the task the get_next_update_task call before it returned,
\* as the worker makes it
SAdvanceDue(m) ==
    /\ call.name = "dequeue"
    /\ ret # None
    /\ LET hn_id == ret[1].hn_id
       IN  /\ message_updates' = advance_update_task(message_updates, now, hn_id, m[1], m[2])
           /\ call' = [name |-> "advance", hn_id |-> hn_id]
           /\ advances' = [advances EXCEPT ![hn_id] =
                               IF hn_id \in RowIds(message_updates')
                               THEN [n |-> @.n + 1, at |-> now] ELSE NoAdvance]
           /\ retired' = [retired EXCEPT ![hn_id] =
                               @ \/ (hn_id \in RowIds(message_updates)
                                       /\ hn_id \notin RowIds(message_updates'))]
    /\ ret' = None
    /\ UNCHANGED <<now, posted_items, progVars>>

\* the clock moves while the worker, a task in hand, awaits fetch_hn_item or
\* edit_message_text
HoldTick ==
    /\ call.name = "dequeue"
    /\ ret # None
    /\ \E t \in ClockSteps(now) : GridPoint(t) <= StoreHorizon /\ now' = t
    /\ UNCHANGED <<storeVars, ghostVars, progVars>>

\* a task enqueued once and advanced whenever it is handed out, over its
\* whole lifetime
NextDue ==
    \/ \E i \in StoreIds, m \in StoreMetrics : SEnqueueOnce(i, m)
    \/ SDequeue
    \/ \E m \in StoreMetrics : SAdvanceDue(m)
    \/ HoldTick
    \/ STick

SpecDue == Init /\ [][NextDue]_vars

\* the queue's enqueue and advance for two stories, at any time up to the
\* first grid point and a task lifetime later
NextFrame ==
    \/ \E i \in HnIds, m \in StoreMetrics : SEnqueue(i, m)
    \/ \E i \in HnIds, m \in StoreMetrics : SAdvance(i, m)
    \/ Tick
    \/ LifetimeTick

SpecFrame == Init /\ [][NextFrame]_vars

\* the clock over the retention window and the task lifetime: a tick, an
\* hour within the lifetime, or the whole retention window
RetentionTick ==
    /\ \/ (now % Hours(1)) < LedgerOffset /\ now' = now + 1
       \/ (now % Hours(24 * PruneDays)) \div Hours(1) < LifetimeHours /\ now' = now + Hours(1)
       \/ now < Hours(24 * PruneDays) /\ now' = now + Hours(24 * PruneDays)
    /\ call' = NoCall
    /\ ret' = None
    /\ UNCHANGED <<storeVars, advances, retired, progVars>>

\* stories published and the ledger pruned with the default retention, as
\* the poll cycle does, over more than the retention window
NextRetention ==
    \/ \E i \in HnIds : PublishStory(i)
    \/ LPruneOld(PruneDays)
    \/ RetentionTick

SpecRetention == Init /\ [][NextRetention]_vars

\* ------------------------------------------ notify_admin called in any order
\* notify_admin(bot, error_msg, context) for one of the payloads followed:
\* the map is brought up to date and, unless the key was held, every admin
\* is written to, each send_message returning or raising
Notify(key) ==
    /\ LET r == notify_admin(sent, now, key)
       IN  /\ sent' = r.sent
           /\ IF r.send
              THEN \E failed \in BOOLEAN :
                      sends' = [sends EXCEPT ![key] =
                                   [n |-> @.n + 1, at |-> now, failed |-> failed]]
              ELSE UNCHANGED sends
    /\ call' = [name |-> "notify_admin", hn_id |-> key]
    /\ UNCHANGED <<now, storeVars, ret, advances, retired, pollVars, workerVars, envVars,
                   manualVars, reported>>

\* notify_admin for the failure of one more story of the ranking
NotifyStory ==
    /\ reported < MaxStoryReports
    /\ reported' = reported + 1
    /\ sent' = notify_admin(sent, now, StoryReport(reported + 1)).sent
    /\ call' = [name |-> "notify_admin", hn_id |-> StoryReport(reported + 1)]
    /\ UNCHANGED <<now, storeVars, ret, advances, retired, pollVars, workerVars, envVars,
                   manualVars, sends>>

\* time.time() a moment later, or a whole dedup window later
NotifyTick ==
    /\ \/ (now % DedupTtl) < NotifyOffset /\ now' = now + 1
       \/ now \div DedupTtl < NotifyHours /\ now' = now + DedupTtl
    /\ call' = NoCall
    /\ UNCHANGED <<storeVars, ret, advances, retired, pollVars, workerVars, envVars,
                   manualVars, notifyVars>>

\* the map as a run of reports early in the process's life leaves it: the
\* worker's error first, then the failures of n stories, all within the
\* first tick of the clock
AfterReports(n) ==
    <<[key |-> WorkerReport, ts |-> 0]>>
        \o [i \in 1..n |-> [key |-> StoryReport(MaxStoryReports + i), ts |-> 0]]

EarlierStories == {MaxEntries - 2}

InitNotify ==
    /\ InitBase
    /\ reported = 0
    /\ \/ sent = <<>> /\ sends = NoSends
       \/ \E n \in EarlierStories :
             /\ sent = AfterReports(n)
             /\ sends = [NoSends EXCEPT ![WorkerReport] = [n |-> 1, at |-> 0, failed |-> FALSE]]

NextNotify ==
    \/ \E key \in ReportKeys : Notify(key)
    \/ NotifyStory
    \/ NotifyTick

SpecNotify == InitNotify /\ [][NextNotify]_vars

\* the clock of a worker that falls behind: read at start-up, next a whole
\* task lifetime later, and from there on every fast interval
SweepTick ==
    /\ now' = IF now < Hours(LifetimeHours)
              THEN now + Hours(LifetimeHours)
              ELSE now + Minutes(FastMinutes)
    /\ now' <= Hours(LifetimeHours) + SweepHorizon * Minutes(FastMinutes)
    /\ UNCHANGED <<storeVars, ghostVars, progVars>>

\* the update worker left to run: no cancellation, every await returns
NextSweep ==
    \/ \E i \in HnIds : PublishStory(i)
    \/ WorkerResume
    \/ WorkerIdle
    \/ WorkerFetch
    \/ WorkerEdit
    \/ WorkerNotified
    \/ SweepTick

\* asyncio runs the worker task whenever the await it is suspended in has
\* completed, and every sleep, fetch and edit it awaits completes
SpecSweep ==
    /\ Init
    /\ [][NextSweep]_vars
    /\ WF_vars(WorkerResume)
    /\ WF_vars(WorkerIdle)
    /\ WF_vars(WorkerFetch)
    /\ WF_vars(WorkerEdit)
    /\ WF_vars(WorkerNotified)
    /\ WF_vars(SweepTick)

\* ------------------------------------------------- reading a timestamp back
\* the instant a stored text denotes: its digits, then its fraction if any
FirstNonDigit(s) == CHOOSE i \in 1..Len(s) : s[i] < Zero /\ \A j \in 1..(i - 1) : s[j] >= Zero

RECURSIVE DigitsValue(_, _)
DigitsValue(s, n) == IF n = 0 THEN 0 ELSE 10 * DigitsValue(s, n - 1) + (s[n] - Zero)

IsoTime(s) ==
    LET e == FirstNonDigit(s)
    IN  Sub * DigitsValue(s, e - 1) + (IF s[e] = Dot THEN s[e + 1] - Zero ELSE 0)

IsDue(row, t) == IsoTime(row.next_update_at) <= t /\ IsoTime(row.expires_at) > t

Rows(tbl) == {tbl[i] : i \in 1..Len(tbl)}

\* --------------------------------------------------------------------- C3
\* C3: a get_next_update_task call at time now returns a row of the table
\* with next_update_at <= now and expires_at > now, and returns nothing
\* exactly when no row satisfies both.
C3_DequeueOnlyDueUnexpired ==
    call.name = "dequeue" =>
        IF ret = None
        THEN \A r \in Rows(message_updates) : ~IsDue(r, now)
        ELSE ret[1] \in Rows(message_updates) /\ IsDue(ret[1], now)

\* a dequeue that found nothing although a row was scheduled: it had expired
C3_Witness ==
    /\ call.name = "dequeue"
    /\ ret = None
    /\ \E r \in Rows(message_updates) :
          IsoTime(r.next_update_at) <= now /\ IsoTime(r.expires_at) <= now

\* --------------------------------------------------------------------- C4
\* C4: after the k-th advance since its enqueue that kept the row,
\* update_count = k, the phase is "10min" for k < 3 and "30min" from k = 3
\* on, and next_update_at is the time of that call plus 10 minutes for
\* k < 3 and plus 30 minutes from k = 3 on.
C4_PhaseStateMachine ==
    \A r \in Rows(message_updates) :
        LET k == advances[r.hn_id].n
            at == advances[r.hn_id].at
        IN  /\ r.update_count = k
            /\ r.phase = (IF k < 3 THEN "10min" ELSE "30min")
            /\ IsoTime(r.next_update_at) = at + (IF k < 3 THEN Minutes(10) ELSE Minutes(30))

\* the fourth advance was made and kept the row
C4_Witness ==
    \E r \in Rows(message_updates) : advances[r.hn_id].n = 4 /\ r.phase = "30min"

\* --------------------------------------------------------------------- C5
\* C5: an advance whose next checkpoint (the call time plus the interval of
\* the phase after this update) is at or past expires_at deletes the row in
\* that call, and no get_next_update_task call returns the id until it is
\* enqueued again.
CandidateNext(row, t) ==
    t + (IF row.phase = "30min" \/ row.update_count + 1 >= 3 THEN Minutes(30) ELSE Minutes(10))

C5_TerminalAdvance ==
    /\ [][\A r \in Rows(message_updates) :
            (/\ call'.name = "advance"
             /\ call'.hn_id = r.hn_id
             /\ CandidateNext(r, now) >= IsoTime(r.expires_at))
                => r.hn_id \notin RowIds(message_updates')]_vars
    /\ [](\A i \in HnIds : retired[i] =>
            /\ i \notin RowIds(message_updates)
            /\ (ret # None => ret[1].hn_id # i))

\* the row was retired by advance and a later dequeue ran
C5_Witness ==
    \E i \in HnIds : retired[i] /\ call.name = "dequeue"

\* --------------------------------------------------------------------- C6
\* C6: every row of message_updates has next_update_at < expires_at.
C6_NextBeforeExpiry ==
    \A r \in Rows(message_updates) : IsoTime(r.next_update_at) < IsoTime(r.expires_at)

\* an advanced row whose next checkpoint is the last instant before expiry
C6_Witness ==
    \E r \in Rows(message_updates) :
        r.update_count >= 1 /\ IsoTime(r.next_update_at) + 1 = IsoTime(r.expires_at)

\* --------------------------------------------------------------------- C7
\* C7 as stated: while the row of an id exists, no call lowers its
\* update_count, an enqueue of the same id included.
CountOf(tbl, hn_id) == RowOf(tbl, hn_id).update_count

C1_PublishedAtMostOnce ==
    \A i \in HnIds : published[i] <= 1

\* --------------------------------------------------------------------- C2
\* C2: no message_updates row exists for an id without a posted_items row,
\* and no published id is left with neither row.
C2_PairCreatedTogether ==
    /\ \A i \in RowIds(message_updates) : has_been_posted(posted_items, i)
    /\ \A i \in HnIds :
          published[i] > 0 =>
              has_been_posted(posted_items, i) \/ i \in RowIds(message_updates)

\* --------------------------------------------------------------------- C8
\* C8: an edit that raises RetryAfter leaves the queue as it was (no
\* advance: update_count, phase and next_update_at unchanged), and when the
\* sleep returns the worker dequeues that same task if it has not expired.
C8_RateLimitedRetriesSameTask ==
    [][/\ (wpc = "edit" /\ wpc' = "rate_sleep")
            => message_updates' = message_updates /\ task' = task
       /\ (wpc = "rate_sleep" /\ wpc' # "rate_sleep" /\ IsoTime(task[1].expires_at) > now)
            => task' # None /\ task'[1].hn_id = task[1].hn_id]_vars

\* --------------------------------------------------------------------- C9
\* C9: when fetch_hn_item returns nothing, the worker edits nothing and
\* advances the row in that iteration with the score and comments the task
\* was dequeued with (the row is rescheduled after now, or deleted), so the
\* same row is never dequeued twice without an advance in between.
C9_FetchFailureAdvances ==
    [][/\ (wpc = "fetch" /\ wpc' \notin {"fetch", "cancelled", "notify"} /\ item' = None) =>
            /\ wpc' = "pace"
            /\ task' = task
            /\ task[1].hn_id \in RowIds(message_updates)
            /\ \/ task[1].hn_id \notin RowIds(message_updates')
               \/ LET old == RowOf(message_updates, task[1].hn_id)
                      new == RowOf(message_updates', task[1].hn_id)
                  IN  /\ new.update_count = old.update_count + 1
                      /\ new.score = task[1].score
                      /\ new.comments = task[1].comments
                      /\ IsoTime(new.next_update_at) > now
       /\ (wpc = "pace" /\ wpc' \in {"fetch", "idle_sleep"} /\ item = None /\ task # None
                /\ task' # None)
            => task'[1] # task[1]]_vars

\* the fetch of a task failed and its row was advanced with the stored values
C9_Witness ==
    /\ wpc = "pace"
    /\ item = None
    /\ task # None
    /\ task[1].hn_id \in RowIds(message_updates)
    /\ RowOf(message_updates, task[1].hn_id).update_count = task[1].update_count + 1
    /\ RowOf(message_updates, task[1].hn_id).score = task[1].score

\* -------------------------------------------------------------------- C10
\* C10: every edit that ends otherwise than with RetryAfter is followed, in
\* the same iteration, by the advance of its task: the row is rescheduled
\* or deleted before the worker awaits again.
C10_EditFailureStillAdvances ==
    [][(wpc = "edit" /\ wpc' \notin {"edit", "rate_sleep", "cancelled"} /\ faults' = faults) =>
            \/ task[1].hn_id \notin RowIds(message_updates')
            \/ RowOf(message_updates', task[1].hn_id).update_count
                    = RowOf(message_updates, task[1].hn_id).update_count + 1]_vars

\* -------------------------------------------------------------------- C11
\* C11: no exception other than CancelledError ends the worker loop: it
\* goes to notify_admin, then to the back-off sleep, and from the back-off
\* to the loop head again; the loop ends by cancellation only.
C11_WorkerNeverTerminates ==
    [][/\ wpc' # "dead"
       /\ (wpc = "notify" /\ wpc' # "notify") => wpc' \in {"backoff", "cancelled"}
       /\ (wpc = "backoff" /\ wpc' # "backoff")
             => wpc' \in {"fetch", "idle_sleep", "notify", "cancelled"}
       /\ (faults' # faults /\ wpc' # wpc) => wpc' = "notify"]_vars

\* an exception was raised while a task was in hand, was reported, and the
\* worker sleeps before it resumes
C11_Witness ==
    wpc = "backoff" /\ task # None /\ faults > 0

\* -------------------------------------------------------------------- C12
\* C12: the loop exits on cancellation only between task iterations, never
\* while fetch_hn_item or edit_message_text is in flight.
C12_CancelOnlyBetweenIterations ==
    [][(wpc' = "cancelled" /\ wpc # "cancelled") => wpc \notin {"fetch", "edit"}]_vars

\* -------------------------------------------------------------------- C13
\* C13: after mark_posted(x) the ledger holds exactly one row for x, however
\* often it is called, and the rows of every other id are as they were;
\* has_been_posted(x) answers whether a row for x exists and changes nothing.
LedgerRows(led, hn_id) == {i \in 1..Len(led) : led[i].hn_id = hn_id}

C13_LedgerRoundTrip ==
    [][/\ call'.name = "mark_posted" =>
            /\ Cardinality(LedgerRows(posted_items', call'.hn_id)) = 1
            /\ \A y \in HnIds \ {call'.hn_id} :
                  {posted_items'[i] : i \in LedgerRows(posted_items', y)}
                      = {posted_items[i] : i \in LedgerRows(posted_items, y)}
       /\ call'.name = "has_been_posted" =>
            /\ posted_items' = posted_items
            /\ ret' = <<LedgerRows(posted_items, call'.hn_id) # {}>>]_vars

\* mark_posted was called for an id that had a row, beside a row of the
\* other id
C13_Witness ==
    /\ call.name = "mark_posted"
    /\ Len(posted_items) = 2
    /\ posted_items[2].hn_id = call.hn_id
    /\ IsoTime(posted_items[2].posted_at) > IsoTime(posted_items[1].posted_at)
    /\ posted_items[2].score # posted_items[1].score

\* -------------------------------------------------------------------- C14
\* C14: prune_old(days) at time now removes exactly the rows with
\* posted_at < now - days: a row posted at the cutoff or later stays, every
\* row posted before it goes, and no row is added or changed.
C14_PruneExact ==
    [][call'.name = "prune_old" =>
          LET cutoff == now - Hours(24 * call'.hn_id)
          IN  Rows(posted_items')
                = {r \in Rows(posted_items) : IsoTime(r.posted_at) >= cutoff}]_vars

\* a prune that kept a row posted exactly at the cutoff
C14_Witness ==
    /\ call.name = "prune_old"
    /\ \E r \in Rows(posted_items) : IsoTime(r.posted_at) = now - Hours(24 * call.hn_id)

\* -------------------------------------------------------------------- C15
\* C15: send_message succeeds only for a story that is not in the ledger,
\* whose topic's threshold is not -1 and whose score is at least the
\* threshold; the loop passes over exactly the stories that fail one of the
\* three, so a story of a topic with threshold -1 is never published and a
\* story whose score equals the threshold is.
Eligible(story, led) ==
    LET threshold == score_threshold_for(detect_topic(story.title_prefix, story.type))
    IN  /\ LedgerRows(led, story.id) = {}
        /\ threshold # MinScoreJobs
        /\ story.points >= threshold

C15_EligibilityFilter ==
    [][\A p \in PollSlots :
          /\ (ppc[p] = "publish" /\ published' # published)
                => Eligible(Head(stories[p]), posted_items)
          /\ (ppc[p] = "loop" /\ ppc'[p] # "loop" /\ crashes' = crashes /\ faults' = faults
                /\ posted_count[p] < StoriesPerPoll)
                => /\ \A i \in 1..(Len(stories[p]) - Len(stories'[p])) :
                          ~Eligible(stories[p][i], posted_items)
                   /\ ppc'[p] = "summarize" => Eligible(Head(stories'[p]), posted_items)]_vars

\* a story with exactly the threshold's score was published while the
\* other id was not
C15_Witness ==
    /\ ppc[1] = "delay"
    /\ Len(stories[1]) = 1
    /\ stories[1][1].points = MinScoreDefault
    /\ published[stories[1][1].id] = 1
    /\ \E i \in HnIds : published[i] = 0

\* -------------------------------------------------------------------- C16
\* C16: in a single poll cycle send_message succeeds at most
\* stories_per_poll times (stated for the first cycle of a process that
\* has not been restarted, where every message sent so far is the cycle's).
C16_PerCycleCap ==
    (polls <= 1 /\ crashes = 0) => NextMessageId - 1 <= StoriesPerPoll

\* -------------------------------------------------------------------- C17
\* C17: when summarizing, formatting, send_message or a store write raises
\* for a story, the poll goes to notify_admin and from there to the loop
\* head with the stories that follow it; the cycle goes on.
C17_FailureIsolation ==
    [][\A p \in PollSlots :
          /\ (ppc[p] \in {"summarize", "publish"} /\ faults' # faults)
                => ppc'[p] = "notify" /\ stories'[p] = stories[p]
          /\ (ppc[p] = "notify" /\ ppc'[p] # "notify" /\ crashes' = crashes)
                => /\ ppc'[p] = "loop"
                   /\ stories'[p] = Tail(stories[p])
                   /\ posted_count'[p] = posted_count[p]]_vars

\* in the cycle in which a story failed, the story after it is being
\* summarized
C17_Witness ==
    /\ polls = 1
    /\ crashes = 0
    /\ faults = 1
    /\ ppc[1] = "summarize"
    /\ Len(stories[1]) = 1

\* -------------------------------------------------------------------- C18
\* C18: every poll cycle that finishes, after its loop or through the
\* outer except clause, has run prune_old with the 30 days of the default.
C18_PruneAfterEveryCycle ==
    [][\A p \in PollSlots :
          (ppc[p] # "idle" /\ ppc'[p] = "idle" /\ crashes' = crashes)
              => call' = [name |-> "prune_old", hn_id |-> PruneDays]]_vars

\* -------------------------------------------------------------------- C19
\* the queue holds a row of hn_id that is past its expires_at
Expired(hn_id) ==
    \E r \in Rows(message_updates) :
        r.hn_id = hn_id /\ IsoTime(r.expires_at) <= now

RowsOfId(tbl, hn_id) == SelectSeq(tbl, LAMBDA r : r.hn_id = hn_id)

\* C20: after add_update_task(hn_id) at time now the queue holds exactly one
\* row of hn_id, in the fast phase with update_count 0, next_update_at
\* now + the fast interval and expires_at now + the lifetime, whatever row
\* of hn_id it held before; the rows of the other ids are as they were.
C20_EnqueueUpsert ==
    [][ \A i \in HnIds :
          published'[i] # published[i] =>
            /\ Len(RowsOfId(message_updates', i)) = 1
            /\ LET r == RowsOfId(message_updates', i)[1]
               IN  /\ r.phase = "10min"
                   /\ r.update_count = 0
                   /\ IsoTime(r.next_update_at) = now + Minutes(FastMinutes)
                   /\ IsoTime(r.expires_at) = now + Hours(LifetimeHours)
            /\ \A j \in HnIds \ {i} :
                  RowsOfId(message_updates', j) = RowsOfId(message_updates, j)
      ]_vars

\* a story has just been enqueued a second time, later than the first,
\* beside the row of another story that the worker has advanced
C20_Witness ==
    \E i \in HnIds, j \in HnIds :
        /\ i # j
        /\ published[i] = 2
        /\ now > 0
        /\ Len(RowsOfId(message_updates, i)) = 1
        /\ IsoTime(RowsOfId(message_updates, i)[1].posted_at) = now
        /\ Len(RowsOfId(message_updates, j)) = 1
        /\ RowsOfId(message_updates, j)[1].update_count > 0

\* -------------------------------------------------------------------- C21
\* C21: add_update_task, get_next_update_task, advance_update_task and
\* remove_expired_updates leave posted_items as it is, prune_old leaves
\* message_updates as it is, and an id leaves posted_items only in a call
\* of prune_old.
C21_LedgerIndependentOfQueue ==
    [][ /\ call'.name \in {"enqueue", "dequeue", "advance", "remove_expired"}
            => posted_items' = posted_items
        /\ call'.name = "prune_old" => message_updates' = message_updates
        /\ RowIds(posted_items) \ RowIds(posted_items') # {}
            => call'.name = "prune_old"
      ]_vars

\* advance has just deleted the task row of a story a day after it was
\* posted, and the ledger still holds the story
C21_Witness ==
    /\ call.name = "advance"
    /\ now >= Hours(24)
    /\ \E i \in StoreIds :
          /\ retired[i]
          /\ i \notin RowIds(message_updates)
          /\ has_been_posted(posted_items, i)

\* -------------------------------------------------------------------- C22
\* C22: no step of a manual request (/summarize or a pasted link) changes
\* posted_items or message_updates, and none changes what the poll cycle in
\* progress goes on to do.
C22_ManualLeavesTablesAlone ==
    [][ mpc' # mpc => /\ posted_items' = posted_items
                      /\ message_updates' = message_updates
                      /\ pollVars' = pollVars
      ]_vars

\* a story summarized on request before it was posted has been posted by
\* the poll cycle all the same, and another story was summarized on request
\* after the poll cycle had posted it
C22_Witness ==
    \E i \in HnIds, j \in HnIds :
        /\ replied[i] = "before_post"
        /\ has_been_posted(posted_items, i)
        /\ published[i] > 0
        /\ replied[j] = "after_post"

\* -------------------------------------------------------------------- C23
\* C23: when the start-up invocation of poll_and_post and a timer
\* invocation interleave at their awaits, with no call failing and no
\* restart, no story is sent by both.
C23_OverlapNoDoublePublish ==
    (faults = 0 /\ crashes = 0) => \A i \in HnIds : published[i] <= 1

\* -------------------------------------------------------------------- C24
\* C24: while the worker holds a task it has dequeued (it awaits the fetch
\* or the edit, and advance is yet to be called), no row of another story
\* that is due and unexpired has a next_update_at strictly earlier than
\* the one the task was dequeued with.
C24_EarliestDueFirst ==
    wpc \in {"fetch", "edit"} =>
        \A r \in Rows(message_updates) :
            (r.hn_id # task[1].hn_id /\ IsDue(r, now))
                => IsoTime(r.next_update_at) >= IsoTime(task[1].next_update_at)

\* the worker holds the earlier of two due tasks
C24_Witness ==
    /\ wpc = "fetch"
    /\ \E r \in Rows(message_updates) :
          /\ r.hn_id # task[1].hn_id
          /\ IsDue(r, now)
          /\ IsoTime(r.next_update_at) > IsoTime(task[1].next_update_at)

\* -------------------------------------------------------------------- C25
\* the instants a second call may come at: what the query returns changes
\* with the clock only where the clock reaches a row's next_update_at or
\* expires_at, so now and those instants stand for all later ones
LaterInstants ==
    {t \in {now} \cup {IsoTime(r.next_update_at) : r \in Rows(message_updates)}
                 \cup {IsoTime(r.expires_at) : r \in Rows(message_updates)} : t >= now}

\* C25: the worker's call of get_next_update_task at its loop head changes
\* neither table, and on an unchanged table a second call at any later
\* instant at which the task returned first is still unexpired returns
\* that same task.
C25_DequeueIsPurePeek ==
    [][ /\ (wpc \in {"start", "pace", "rate_sleep", "backoff"}
                /\ wpc' \in {"fetch", "idle_sleep"})
            => (posted_items' = posted_items /\ message_updates' = message_updates)
        /\ LET first == get_next_update_task(message_updates, now)
           IN  first # None =>
                 \A t \in LaterInstants :
                     IsoTime(first[1].expires_at) > t
                         => get_next_update_task(message_updates, t) = first
      ]_vars

\* the worker is back at its loop head after a rate-limited edit, and the
\* task it was handed is handed out again although a second task has
\* become due
C25_Witness ==
    /\ wpc = "rate_sleep"
    /\ get_next_update_task(message_updates, now) = task
    /\ Cardinality(DueRows(message_updates, now)) = 2

\* -------------------------------------------------------------------- C26
\* C26: no step of the poll cycle changes or replaces a task row that is
\* in the queue and unexpired.
C26_PollLeavesLiveRowsAlone ==
    [][ \A i \in HnIds :
          (/\ ppc' # ppc
           /\ Len(RowsOfId(message_updates, i)) = 1
           /\ IsoTime(RowsOfId(message_updates, i)[1].expires_at) > now)
              => RowsOfId(message_updates', i) = RowsOfId(message_updates, i)
      ]_vars

\* -------------------------------------------------------------------- C27
\* the fetched metrics differ from the ones the task carries
Changed(fresh, tk) == fresh.points # tk.score \/ fresh.num_comments # tk.comments

\* C27: when the fetch of a dequeued task returns an item, the worker goes
\* on to edit exactly if the fetched points or comment count differ from
\* the task's, and otherwise advances at once; an edit that ends otherwise
\* than with RetryAfter is followed by the one advance of the task's id
\* with the fetched points and comment count.
C27_EditOnChangeAlwaysAdvance ==
    [][ /\ (wpc = "fetch" /\ item' # None)
            => /\ wpc' = "edit" <=> Changed(item'[1], task[1])
               /\ wpc' # "edit" =>
                     message_updates' = advance_update_task(message_updates, now,
                         task[1].hn_id, item'[1].points, item'[1].num_comments)
        /\ (wpc = "edit" /\ wpc' \notin {"edit", "rate_sleep", "cancelled"}
                /\ faults' = faults)
            => message_updates' = advance_update_task(message_updates, now,
                   task[1].hn_id, item[1].points, item[1].num_comments)
      ]_vars

\* -------------------------------------------------------------------- C28
\* C28: when edit_message_text ends with BadRequest "message is not
\* modified", nothing is logged as a warning or reported to the admins,
\* and the task is advanced with the fetched points and comment count
\* before the worker awaits again.
C28_NotModifiedIsSuccess ==
    [][ (wpc = "edit" /\ edited'.outcome = "not_modified")
            => /\ edited'.report = "none"
               /\ wpc' = "pace"
               /\ message_updates' = advance_update_task(message_updates, now,
                      task[1].hn_id, item[1].points, item[1].num_comments)
      ]_vars

\* the edit ended with "message is not modified" and the row carries the
\* fetched points, which differ from the ones the task was dequeued with
C28_Witness ==
    /\ wpc = "pace"
    /\ edited.outcome = "not_modified"
    /\ item[1].points # task[1].score
    /\ task[1].hn_id \in RowIds(message_updates)
    /\ RowOf(message_updates, task[1].hn_id).score = item[1].points
    /\ RowOf(message_updates, task[1].hn_id).update_count = task[1].update_count + 1

\* -------------------------------------------------------------------- C29
\* C29, as stated: the worker dequeues a task, and so starts its fetch,
\* only before the task's expires_at, and calls edit_message_text for it
\* only before its expires_at.
C29_NoAttemptPastExpiry ==
    [][ /\ (wpc # "fetch" /\ wpc' = "fetch") => IsoTime(task'[1].expires_at) > now
        /\ (wpc = "fetch" /\ wpc' = "edit") => IsoTime(task[1].expires_at) > now
      ]_vars

\* C29, amended: every attempt on a task starts with a dequeue before the
\* task's expires_at, a retry included; past expires_at the task is not
\* handed out again, so the attempt in progress is its last.
C29_NoDequeuePastExpiry ==
    [][ (wpc # "fetch" /\ wpc' = "fetch")
            => /\ IsoTime(task'[1].expires_at) > now
               /\ \E r \in Rows(message_updates) :
                     r = task'[1] /\ IsoTime(r.expires_at) > now
      ]_vars

\* past the expires_at of a row that was due and never advanced, the loop
\* head has found nothing to hand out although the row is still in the queue
C29_Witness ==
    /\ wpc = "idle_sleep"
    /\ task = None
    /\ now >= Hours(LifetimeHours)
    /\ \E r \in Rows(message_updates) :
          /\ IsoTime(r.next_update_at) <= now
          /\ IsoTime(r.expires_at) <= now
          /\ r.update_count = 0

\* -------------------------------------------------------------------- C30
\* a is what is left of b after some of its first elements
IsSuffix(a, b) == \E k \in 0..Len(b) : a = SubSeq(b, k + 1, Len(b))

\* C30: in a poll cycle the list of candidates is gone through from its
\* front, never re-ordered: what is left of it is always a suffix of what
\* was left before, the story sent is the one at its front, and the
\* stories passed over on the way to it are all ineligible, so the stories
\* sent are the first eligible ones, in the order of the list.
C30_RankOrderPreserved ==
    [][ \A p \in PollSlots :
          /\ (ppc[p] # "idle" /\ stories'[p] # stories[p])
                => IsSuffix(stories'[p], stories[p])
          /\ (ppc[p] = "publish" /\ published' # published)
                => published' = [published EXCEPT ![Head(stories[p]).id] = @ + 1]
          /\ (ppc[p] = "loop" /\ ppc'[p] = "summarize")
                => /\ posted_count[p] < StoriesPerPoll
                   /\ Eligible(Head(stories'[p]), posted_items)
                   /\ \A k \in 1..(Len(stories[p]) - Len(stories'[p])) :
                         ~Eligible(stories[p][k], posted_items)
      ]_vars

\* the cycle is at work on the first of two eligible candidates
C30_Witness ==
    /\ ppc[1] = "summarize"
    /\ Len(stories[1]) = 2
    /\ Eligible(stories[1][1], posted_items)
    /\ Eligible(stories[1][2], posted_items)

\* -------------------------------------------------------------------- C31
\* C31: when a step of the poll cycle outside the per-story handling fails
\* (the fetch of the candidates, a statement of the loop), the cycle goes
\* to notify_admin; from the failure on it sends nothing and writes nothing
\* to either table, and it ends there: the next fetch of the candidates
\* comes with the next trigger of the timer.
C31_CycleFailureReported ==
    [][ \A p \in PollSlots :
          /\ (ppc[p] \in {"fetching", "loop"} /\ faults' # faults)
                => /\ ppc'[p] = "cycle_failed"
                   /\ storeVars' = storeVars
                   /\ published' = published
          /\ ppc[p] = "cycle_failed"
                => /\ ppc'[p] \in {"cycle_failed", "idle"}
                   /\ storeVars' = storeVars
                   /\ published' = published
          /\ (ppc[p] # "fetching" /\ ppc'[p] = "fetching")
                => ppc[p] = "idle" /\ polls' = polls + 1
      ]_vars

\* -------------------------------------------------------------------- C32
\* C32: a turn of the worker's loop that found no task due goes, after its
\* sleep, to the next loop head: it counts one more idle turn, leaves the
\* ledger and every unexpired row as they are, and deletes the expired rows
\* exactly when the count of idle turns since the start is a multiple of
\* CleanupEvery; a turn that found a task leaves the count as it is and
\* deletes no expired row of another story.
C32_IdleTurnSweepsEveryFortieth ==
    [][ /\ (wpc = "idle_sleep" /\ published' = published /\ now' = now)
            => /\ cycle' = (cycle + 1) % CleanupEvery
               /\ wpc' \in {"idle_sleep", "fetch"}
               /\ posted_items' = posted_items
               /\ message_updates' =
                     IF cycle' = 0
                     THEN SelectSeq(message_updates, LAMBDA r : IsoTime(r.expires_at) > now)
                     ELSE message_updates
        /\ (wpc # "idle_sleep" /\ published' = published /\ now' = now)
            => /\ cycle' = cycle
               /\ \A r \in Rows(message_updates) :
                     (IsoTime(r.expires_at) <= now /\ (task = None \/ r.hn_id # task[1].hn_id))
                         => r \in Rows(message_updates')
      ]_vars

\* the clean-up of the idle turn that brought the count to a multiple of
\* CleanupEvery has deleted the expired row of a story, in a run in which
\* the worker also found the task of another story and advanced it
C32_Witness ==
    /\ wpc = "idle_sleep"
    /\ cycle = 0
    /\ \E i \in HnIds, j \in HnIds :
          /\ published[i] > 0
          /\ i \notin RowIds(message_updates)
          /\ j \in RowIds(message_updates)
          /\ RowOf(message_updates, j).update_count > 0

\* -------------------------------------------------------------------- C33
\* C33: a call of notify_admin for a payload whose last round of admin
\* messages lies no more than the dedup window back writes to no admin,
\* whether or not those messages got through; a call for a payload never
\* sent, or last sent more than the window back, writes to every admin
\* once; and after every call the map holds at most MaxEntries entries, the
\* key of the call among them.
C33_NotifierDedup ==
    [][ call'.name = "notify_admin" =>
          /\ \A k \in ReportKeys :
                IF k # call'.hn_id \/ (sends[k].n > 0 /\ now - sends[k].at <= DedupTtl)
                THEN sends'[k] = sends[k]
                ELSE sends'[k].n = sends[k].n + 1 /\ sends'[k].at = now
          /\ Len(sent') <= MaxEntries
          /\ call'.hn_id \in Keys(sent')
      ]_vars

\* -------------------------------------------------------------------- C34
\* C34: advance_update_task for an id without a row leaves the table as it
\* is; for an id with a row it leaves the rows of every other id as they
\* are and, where it keeps the row, leaves its expires_at, posted_at,
\* message_id, chat_id, title, hook and url as they are.
C34_AdvanceFrame ==
    [][ call'.name = "advance" =>
          LET i == call'.hn_id
          IN  IF i \notin RowIds(message_updates)
              THEN message_updates' = message_updates
              ELSE /\ \A j \in HnIds \ {i} :
                         RowsOfId(message_updates', j) = RowsOfId(message_updates, j)
                   /\ Len(RowsOfId(message_updates', i)) <= 1
                   /\ i \in RowIds(message_updates') =>
                         LET old == RowOf(message_updates, i)
                             new == RowOf(message_updates', i)
                         IN  /\ new.expires_at = old.expires_at
                             /\ new.posted_at = old.posted_at
                             /\ new.message_id = old.message_id
                             /\ new.chat_id = old.chat_id
                             /\ new.title = old.title
                             /\ new.hook = old.hook
                             /\ new.url = old.url
      ]_vars

\* advance has just rescheduled the row of one story and given it new
\* metrics, beside the row of another story enqueued at another time with
\* other metrics
C34_Witness ==
    /\ call.name = "advance"
    /\ \E j \in HnIds \ {call.hn_id} :
          /\ call.hn_id \in RowIds(message_updates)
          /\ j \in RowIds(message_updates)
          /\ RowOf(message_updates, call.hn_id).update_count >= 1
          /\ RowOf(message_updates, j).update_count = 0
          /\ RowOf(message_updates, j).score # RowOf(message_updates, call.hn_id).score
          /\ RowOf(message_updates, j).expires_at # RowOf(message_updates, call.hn_id).expires_at
          /\ RowOf(message_updates, call.hn_id).last_updated_at
                # RowOf(message_updates, call.hn_id).posted_at

\* -------------------------------------------------------------------- C35
\* C35: when summarizing or send_message raises for a story, neither table
\* is written and posted_count stays as it is, so the story is still not
\* in the ledger and a later cycle takes it up as it did this one.
C35_FailedPublishWritesNothing ==
    [][ \A p \in PollSlots :
          (/\ ppc[p] \in {"summarize", "publish"}
           /\ faults' # faults
           /\ published' = published)
              => /\ posted_items' = posted_items
                 /\ message_updates' = message_updates
                 /\ posted_count' = posted_count
                 /\ Eligible(Head(stories[p]), posted_items')
      ]_vars

\* two cycles, one failure and no restart, and both stories are published
\* once with both of their rows written: the first cycle published one
\* story only, so the failure was that of the other story in the first
\* cycle, and the second cycle has published it
C35_Witness ==
    /\ polls = 2
    /\ faults = 1
    /\ crashes = 0
    /\ \A i \in HnIds :
          /\ published[i] = 1
          /\ has_been_posted(posted_items, i)
          /\ i \in RowIds(message_updates)

\* -------------------------------------------------------------------- C36
\* C36: after every call every row of message_updates is in the fast phase
\* exactly if its update_count is below PhaseSwitchCount and in the slow
\* phase exactly if it is PhaseSwitchCount or more, and advance leaves a
\* row of the slow phase that it keeps in the slow phase.
C36_PhaseFollowsCount ==
    [][ /\ \A r \in Rows(message_updates') :
              /\ r.phase \in {"10min", "30min"}
              /\ r.phase = "10min" <=> r.update_count < PhaseSwitchCount
              /\ r.phase = "30min" <=> r.update_count >= PhaseSwitchCount
        /\ \A i \in RowIds(message_updates) \cap RowIds(message_updates') :
              (call'.name = "advance" /\ RowOf(message_updates, i).phase = "30min")
                  => RowOf(message_updates', i).phase = "30min"
      ]_vars

\* the advance that brought the count to PhaseSwitchCount has just put the
\* row into the slow phase
C36_Witness ==
    /\ call.name = "advance"
    /\ \E r \in Rows(message_updates) :
          /\ r.hn_id = call.hn_id
          /\ r.update_count = PhaseSwitchCount
          /\ r.phase = "30min"
          /\ IsoTime(r.next_update_at) = now + Minutes(SlowMinutes)

\* -------------------------------------------------------------------- C37
\* C37: for a task enqueued once and advanced only when
\* get_next_update_task has handed it out, the call that deletes the row
\* is at most the seventh advance since the enqueue, and the update_count
\* of the row never passes six.
C37_AtMostSevenAdvances ==
    [][ /\ call'.name = "advance" => advances[call'.hn_id].n + 1 <= 7
        /\ \A r \in Rows(message_updates') : r.update_count <= 6
      ]_vars

\* the sixth advance has kept the row, two hours after the enqueue, and the
\* next check is the last before expires_at
C37_Witness ==
    /\ call.name = "advance"
    /\ \E r \in Rows(message_updates) :
          /\ r.update_count = 6
          /\ advances[r.hn_id].n = 6
          /\ now = IsoTime(r.posted_at) + Hours(2)
          /\ IsoTime(r.next_update_at) + Minutes(SlowMinutes) = IsoTime(r.expires_at)

\* -------------------------------------------------------------------- C38
\* the interval of a phase, in ticks
Spacing(phase) == Minutes(IF phase = "10min" THEN FastMinutes ELSE SlowMinutes)

\* C38: get_next_update_task hands a task out only when the interval of
\* its phase has passed since its last advance (or since its enqueue), so
\* an advance the worker makes for a task that it advanced before comes at
\* least that interval after the advance before it: the fast interval in
\* the fast phase, the slow interval in the slow phase.
C38_MinimumSpacing ==
    [][ /\ (call'.name = "dequeue" /\ ret' # None)
            => now >= IsoTime(ret'[1].last_updated_at) + Spacing(ret'[1].phase)
        /\ (call'.name = "advance" /\ advances[call'.hn_id].n > 0)
            => now >= advances[call'.hn_id].at
                        + Spacing(RowOf(message_updates, call'.hn_id).phase)
      ]_vars

\* the fourth advance of a task, made an hour after its enqueue: three
\* fast intervals and one slow interval, none of them exceeded
C38_Witness ==
    /\ call.name = "advance"
    /\ \E r \in Rows(message_updates) :
          /\ r.hn_id = call.hn_id
          /\ r.update_count = 4
          /\ now = IsoTime(r.posted_at) + 3 * Minutes(FastMinutes) + Minutes(SlowMinutes)

\* -------------------------------------------------------------------- C39
\* the queue holds a row of hn_id that has not reached its expires_at
Live(hn_id) ==
    \E r \in Rows(message_updates) : r.hn_id = hn_id /\ IsoTime(r.expires_at) > now

\* C39: prune_old with the default retention removes the ledger row of no
\* id that has an unexpired task row, so after it such an id is still
\* passed over by the poll cycle.
C39_RetentionOutlivesTask ==
    [][ call'.name = "prune_old" =>
          \A i \in RowIds(posted_items) :
              Live(i) => has_been_posted(posted_items', i)
      ]_vars

\* prune_old has removed the ledger row of a story published a retention
\* window ago and kept that of a story published before this call, whose
\* task is unexpired
C39_Witness ==
    /\ call.name = "prune_old"
    /\ faults = 0
    /\ \E i \in HnIds, j \in HnIds :
          /\ Live(i)
          /\ \E r \in Rows(posted_items) : r.hn_id = i /\ IsoTime(r.posted_at) < now
          /\ published[j] > 0
          /\ ~has_been_posted(posted_items, j)

====
